---- MODULE Spec2Model ----
(***************************************************************************)
(* Model of src/event-session-signup/src/Code.js: the conference script    *)
(* (calendar / form synchronisation, invitations on form submission) and   *)
(* the timesheet script (pay, approval columns, notification e-mails).     *)
(***************************************************************************)
EXTENDS Integers, Sequences, FiniteSets, TLC

(***************************************************************************)
(* Bounds of the model.                                                    *)
(***************************************************************************)
MaxRows == 2
MaxEvents == 3
MaxCalendars == 2
MaxForms == 2
GroupRows == 3
MaxRuns == 2
NumEmployees == 2
MaxCols == 13
MaxMails == 2

Titles == {"A", "B"}
Days == {"Mon", "Tue"}
Times == {"10:00", "11:00"}
EndTime == "12:00"
Location == "Room"

VARIABLES
    table,            \* values of the sheet 'Conference Setup', header first
    props,            \* script properties: calendarId, formId (0 is null)
    nCalendars,       \* calendars created so far; their ids are 1..nCalendars
    calendars,        \* calendars that exist
    trashedCalendars, \* calendars deleted by their owner, out of band
    events,           \* every event ever inserted, by API id
    liveEvents,       \* events that exist
    trashedEvents,    \* events deleted by their owner, out of band
    forms,            \* items of every form ever created, by form id
    liveForms,        \* forms that exist
    triggers,         \* number of installed onFormSubmit project triggers
    pass,             \* what the last setUpCalendar_ pass did; forgotten as soon
                      \* as anything changes outside the script
    runs,             \* the onFormSubmit invocations, one per form submission
    sheet,            \* the timesheet: its columns, each a column of cells
    mail,             \* the e-mails sent for each timesheet row
    sendLog           \* what the last sendEmails run did, row by row

syncVars == <<table, props, nCalendars, calendars, trashedCalendars, events, liveEvents,
              trashedEvents, forms, liveForms, triggers, pass>>
timesheetVars == <<sheet, mail, sendLog>>
vars == <<syncVars, runs, timesheetVars>>

(***************************************************************************)
(* Cell values.  A date cell and a time cell both read as Date objects.    *)
(***************************************************************************)
DateCell(d) == [day |-> d, hm |-> "00:00"]
TimeCell(t) == [day |-> "30/12/1899", hm |-> t]

toLocaleDateString(date) == date.day
toLocaleTimeString(date) == date.hm

joinDateAndTime_(date, time) == [day |-> date.day, hm |-> time.hm]

NoId == <<>>
Header == [title |-> "Title", date |-> "Date", start |-> "Start", end |-> "End",
           location |-> "Location", id |-> <<>>]
FirstDataRow == 2

NewRow(title, day, time) ==
    [title |-> title, date |-> DateCell(day), start |-> TimeCell(time),
     end |-> TimeCell(EndTime), location |-> Location, id |-> NoId]

(***************************************************************************)
(* Event identifiers.  CalendarEvent.getId() is the iCalUID, the API id    *)
(* followed by "@google.com" (the token AtGoogleCom); getEventById takes   *)
(* either form.                                                            *)
(***************************************************************************)
AtGoogleCom == 0
getId(n) == <<n, AtGoogleCom>>

RECURSIVE StripSuffix(_)
StripSuffix(s) ==
    IF s = <<>> THEN <<>>
    ELSE IF Head(s) = AtGoogleCom THEN Tail(s)
    ELSE <<Head(s)>> \o StripSuffix(Tail(s))

ApiId(s) == IF StripSuffix(s) = <<>> THEN 0 ELSE Head(StripSuffix(s))

getEventById(evs, live, cal, s) ==
    IF ApiId(s) \in live /\ evs[ApiId(s)].cal = cal THEN ApiId(s) ELSE 0

(***************************************************************************)
(* setUpCalendar_                                                          *)
(***************************************************************************)
NeedNewCalendar(calId) == calId = 0 \/ calId \notin calendars

EventMissing_Always(found) == TRUE
EventMissing(found) == found = 0

InsertedEvent(cal, title, start, end, location) ==
    [cal |-> cal, title |-> title, start |-> start, end |-> end,
     location |-> location, attendees |-> <<>>, guestsCanSeeGuests |-> FALSE]

\* What is left of a deleted event: nothing of it can be read again.
Gone == [cal |-> 0, title |-> "", start |-> DateCell(""), end |-> DateCell(""),
         location |-> "", attendees |-> <<>>, guestsCanSeeGuests |-> FALSE]

UpdatedEvent(event, title, start, end, location) ==
    [event EXCEPT !.title = title, !.start = start, !.end = end,
                  !.location = location]

StoreEventId_Dropped(values, i, n) == values
StoreEventId(values, i, n) == [values EXCEPT ![i].id = getId(n)]

RECURSIVE CalendarLoop(_, _, _, _)
CalendarLoop(i, st, cal, failAt) ==
    IF i > Len(st.values) \/ i = failAt THEN st
    ELSE LET session == st.values[i]
             title == session.title
             start == joinDateAndTime_(session.date, session.start)
             end == joinDateAndTime_(session.date, session.end)
             location == session.location
             found == getEventById(st.events, st.live, cal, session.id)
             create == EventMissing(found)
             n == IF create THEN Len(st.events) + 1 ELSE found
             event == IF create
                      THEN InsertedEvent(cal, title, start, end, location)
                      ELSE UpdatedEvent(st.events[found], title, start, end, location)
             seen == [event EXCEPT !.guestsCanSeeGuests = TRUE]
             call == [op |-> IF create THEN "create" ELSE "update", row |-> i,
                      stored |-> session.id, id |-> n,
                      payload |-> [title |-> title, start |-> start, end |-> end,
                                   location |-> location]]
         IN CalendarLoop(i + 1,
                [values |-> StoreEventId(st.values, i, n),
                 events |-> IF create THEN Append(st.events, seen)
                            ELSE [st.events EXCEPT ![n] = seen],
                 live |-> st.live \cup {n},
                 calls |-> Append(st.calls, call)],
                cal, failAt)

CommitValues(values, failed) == IF failed THEN table ELSE values

(***************************************************************************)
(* setUpForm_                                                              *)
(***************************************************************************)
HasKey(m, k) == \E j \in 1..Len(m) : m[j].key = k
IndexOfKey(m, k) == CHOOSE j \in 1..Len(m) : m[j].key = k

AddDay(schedule, day) ==
    IF HasKey(schedule, day) THEN schedule
    ELSE Append(schedule, [key |-> day, val |-> <<>>])

AddTime(slots, time) ==
    IF HasKey(slots, time) THEN slots
    ELSE Append(slots, [key |-> time, val |-> <<>>])

PushTitle_Unshift(slots, time, title) ==
    [slots EXCEPT ![IndexOfKey(slots, time)].val = <<title>> \o @]

PushTitle(slots, time, title) ==
    [slots EXCEPT ![IndexOfKey(slots, time)].val = Append(@, title)]

RECURSIVE ScheduleLoop(_, _, _)
ScheduleLoop(i, values, schedule) ==
    IF i > Len(values) THEN schedule
    ELSE LET session == values[i]
             day == toLocaleDateString(session.date)
             time == toLocaleTimeString(session.start)
             s1 == AddDay(schedule, day)
             d == IndexOfKey(s1, day)
             s2 == [s1 EXCEPT ![d].val = PushTitle(AddTime(@, time), time, session.title)]
         IN ScheduleLoop(i + 1, values, s2)

TextItem(title) == [type |-> "TEXT", title |-> <<title>>, choices |-> <<>>]
SectionHeaderItem(day) ==
    [type |-> "SECTION_HEADER", title |-> <<"Sessions for", day>>, choices |-> <<>>]
MultipleChoiceItem(time, day, titles) ==
    [type |-> "MULTIPLE_CHOICE", title |-> <<time, day>>, choices |-> titles]

RECURSIVE TimeItems(_, _, _)
TimeItems(slots, j, day) ==
    IF j > Len(slots) THEN <<>>
    ELSE <<MultipleChoiceItem(slots[j].key, day, slots[j].val)>>
         \o TimeItems(slots, j + 1, day)

RECURSIVE DayItems(_, _)
DayItems(schedule, d) ==
    IF d > Len(schedule) THEN <<>>
    ELSE <<SectionHeaderItem(schedule[d].key)>>
         \o TimeItems(schedule[d].val, 1, schedule[d].key)
         \o DayItems(schedule, d + 1)

IsKept(item) == item.type \notin {"MULTIPLE_CHOICE", "SECTION_HEADER"}

NeedNewForm(formId) == formId = 0 \/ formId \notin liveForms

NewTriggers(created) == IF created THEN triggers + 1 ELSE triggers

\* No pass to speak of.
NoPass == [ran |-> FALSE, failedAt |-> 0, calCreated |-> FALSE, cal |-> 0,
           calls |-> <<>>, before |-> <<Header>>, liveBefore |-> {},
           nEventsBefore |-> 0, resumed |-> FALSE, prevFailedAt |-> 0]

(***************************************************************************)
(* setUpConference: setUpCalendar_ then setUpForm_.  failAt names the row  *)
(* whose calendar call throws (0: none does).                              *)
(***************************************************************************)
setUpConference(failAt) ==
    LET values == table
        newCal == NeedNewCalendar(props.calendarId)
        calId == IF newCal THEN nCalendars + 1 ELSE props.calendarId
        st == CalendarLoop(FirstDataRow,
                  [values |-> values, events |-> events, live |-> liveEvents,
                   calls |-> <<>>], calId, failAt)
        failed == failAt # 0
        schedule == ScheduleLoop(FirstDataRow, st.values, <<>>)
        newForm == NeedNewForm(props.formId)
        formId == IF newForm THEN Len(forms) + 1 ELSE props.formId
        base == IF newForm THEN <<TextItem("Name"), TextItem("Email")>>
                ELSE forms[formId]
        items == SelectSeq(base, IsKept) \o DayItems(schedule, 1)
    IN /\ failAt \in {0} \cup (FirstDataRow..Len(table))
       /\ newCal => nCalendars < MaxCalendars
       /\ Len(st.events) <= MaxEvents
       /\ (~failed /\ newForm) => Len(forms) < MaxForms
       /\ nCalendars' = IF newCal THEN nCalendars + 1 ELSE nCalendars
       /\ calendars' = calendars \cup {calId}
       /\ events' = st.events
       /\ liveEvents' = st.live
       /\ table' = CommitValues(st.values, failed)
       /\ pass' = [ran |-> TRUE, failedAt |-> failAt, calCreated |-> newCal,
                   cal |-> calId, calls |-> st.calls, before |-> values,
                   liveBefore |-> liveEvents, nEventsBefore |-> Len(events),
                   resumed |-> pass.ran, prevFailedAt |-> pass.failedAt]
       /\ IF failed
          THEN /\ props' = [props EXCEPT !.calendarId = calId]
               /\ UNCHANGED <<forms, liveForms, triggers>>
          ELSE /\ props' = [calendarId |-> calId, formId |-> formId]
               /\ forms' = IF newForm THEN Append(forms, items)
                           ELSE [forms EXCEPT ![formId] = items]
               /\ liveForms' = liveForms \cup {formId}
               /\ triggers' = NewTriggers(newForm)
       /\ UNCHANGED <<trashedCalendars, trashedEvents, runs, timesheetVars>>

(***************************************************************************)
(* resetConference_                                                        *)
(***************************************************************************)
resetConference_DeletingCalendar(response) ==
    /\ response \in {"OK", "CANCEL"}
    /\ IF response = "CANCEL"
       THEN UNCHANGED vars
       ELSE /\ props' = [calendarId |-> 0, formId |-> 0]
            /\ triggers' = 0
            /\ calendars' = calendars \ {props.calendarId}
            /\ liveEvents' = {n \in liveEvents : events[n].cal # props.calendarId}
            /\ pass' = NoPass
            /\ UNCHANGED <<table, nCalendars, trashedCalendars, events, trashedEvents,
                           forms, liveForms, runs, timesheetVars>>

resetConference_(response) ==
    /\ response \in {"OK", "CANCEL"}
    /\ IF response = "CANCEL"
       THEN UNCHANGED vars
       ELSE /\ props' = [calendarId |-> 0, formId |-> 0]
            /\ triggers' = 0
            /\ pass' = NoPass
            /\ UNCHANGED <<table, nCalendars, calendars, trashedCalendars, events,
                           liveEvents, trashedEvents, forms, liveForms, runs,
                           timesheetVars>>

(***************************************************************************)
(* The environment: edits of the sheet, and deletions done by hand in the  *)
(* calendar and form services.                                             *)
(***************************************************************************)
UNCHANGED_services ==
    UNCHANGED <<props, nCalendars, calendars, trashedCalendars, events, liveEvents,
                trashedEvents, forms, liveForms, triggers, runs, timesheetVars>>

AddRow(title, day, time) ==
    /\ Len(table) < MaxRows + 1
    /\ table' = Append(table, NewRow(title, day, time))
    /\ pass' = NoPass
    /\ UNCHANGED_services

RemoveRow(i) ==
    /\ i \in FirstDataRow..Len(table)
    /\ table' = SubSeq(table, 1, i - 1) \o SubSeq(table, i + 1, Len(table))
    /\ pass' = NoPass
    /\ UNCHANGED_services

EditRow(i, title) ==
    /\ i \in FirstDataRow..Len(table)
    /\ table[i].title # title
    /\ table' = [table EXCEPT ![i].title = title]
    /\ pass' = NoPass
    /\ UNCHANGED_services

DeleteEventByHand(n) ==
    /\ n \in liveEvents
    /\ liveEvents' = liveEvents \ {n}
    /\ trashedEvents' = trashedEvents \cup {n}
    /\ events' = [events EXCEPT ![n] = Gone]
    /\ pass' = NoPass
    /\ UNCHANGED <<table, props, nCalendars, calendars, trashedCalendars, forms,
                   liveForms, triggers, runs, timesheetVars>>

DeleteCalendarByHand(c) ==
    /\ c \in calendars
    /\ calendars' = calendars \ {c}
    /\ trashedCalendars' = trashedCalendars \cup {c}
    /\ liveEvents' = {n \in liveEvents : events[n].cal # c}
    /\ trashedEvents' = trashedEvents \cup {n \in liveEvents : events[n].cal = c}
    /\ events' = [n \in 1..Len(events) |-> IF events[n].cal = c THEN Gone ELSE events[n]]
    /\ pass' = NoPass
    /\ UNCHANGED <<table, props, nCalendars, forms, liveForms, triggers, runs,
                   timesheetVars>>

DeleteFormByHand(f) ==
    /\ f \in liveForms
    /\ liveForms' = liveForms \ {f}
    /\ forms' = [forms EXCEPT ![f] = <<>>]
    /\ pass' = NoPass
    /\ UNCHANGED <<table, props, nCalendars, calendars, trashedCalendars, events,
                   liveEvents, trashedEvents, triggers, runs, timesheetVars>>

(***************************************************************************)
(* The timesheet script.  A cell holds a number, a string or nothing; the  *)
(* sheet is kept as its columns up to the last one with content, which is  *)
(* what getLastColumn reports.                                             *)
(***************************************************************************)
HRS_START == 4
HRS_END == 8
HRLY_PAY_COLUMN == 9
APPROVAL_COLUMN == 11
EMAIL_COLUMN == 3

Blank == [k |-> "blank", n |-> 0, s |-> ""]
Str(x) == [k |-> "str", n |-> 0, s |-> x]
Num(x) == [k |-> "num", n |-> x, s |-> ""]
NaN == [k |-> "nan", n |-> 0, s |-> ""]
Undefined == "undefined"

LastRow == NumEmployees + 1
BlankColumn == [i \in 1..LastRow |-> Blank]
IsBlankColumn(col) == \A i \in 1..LastRow : col[i] = Blank

RECURSIVE Trim(_)
Trim(sh) ==
    IF sh = <<>> THEN sh
    ELSE IF IsBlankColumn(sh[Len(sh)]) THEN Trim(SubSeq(sh, 1, Len(sh) - 1))
    ELSE sh

getLastColumn(sh) == Len(Trim(sh))
getValue(sh, i, j) == IF j \in 1..Len(sh) THEN sh[j][i] ELSE Blank
Pad(sh, j) ==
    IF Len(sh) >= j THEN sh ELSE sh \o [c \in 1..(j - Len(sh)) |-> BlankColumn]
setValue(sh, i, j, v) == Trim([Pad(sh, j) EXCEPT ![j][i] = v])
insertColumnAfter(sh, k) ==
    IF k >= Len(sh) THEN sh
    ELSE SubSeq(sh, 1, k) \o <<BlankColumn>> \o SubSeq(sh, k + 1, Len(sh))

RECURSIVE FillColumn(_, _, _, _)
FillColumn(sh, i, j, v) ==
    IF i > LastRow THEN sh ELSE FillColumn(setValue(sh, i, j, v), i + 1, j, v)

\* The sheet the script is written for: name, id, e-mail, five days of hours and
\* the hourly rate, one row per employee under a header row.
TemplateColumn(j) ==
    [i \in 1..LastRow |->
        IF i = 1 THEN Str("header")
        ELSE IF j = EMAIL_COLUMN THEN Str("email")
        ELSE IF j \in HRS_START..HRS_END THEN Num(8)
        ELSE IF j = HRLY_PAY_COLUMN THEN Num(10)
        ELSE Str("name")]
TemplateSheet == [j \in 1..HRLY_PAY_COLUMN |-> TemplateColumn(j)]

(***************************************************************************)
(* sendEmails.  subject and message are function-scoped: a row that takes  *)
(* no branch reaches MailApp.sendEmail with what an earlier row left in    *)
(* them; while they are still undefined the call matches no signature of   *)
(* sendEmail and throws, which ends the run.                               *)
(***************************************************************************)
SubjectFor(approval, subject) ==
    IF approval = Str("APPROVED") THEN "TimeSheet Approval"
    ELSE IF approval = Str("NOT APPROVED") THEN "TimeSheet not Approved"
    ELSE subject

MessageFor(approval, message) ==
    IF approval = Str("APPROVED") THEN "Your timesheet has been approved"
    ELSE IF approval = Str("NOT APPROVED") THEN "NOT APPROVED"
    ELSE message

RECURSIVE SendLoop(_, _, _)
SendLoop(i, lastCol, st) ==
    IF i > LastRow \/ st.thrown THEN st
    ELSE LET notifiedStatus == getValue(st.sheet, i, lastCol)
             email == getValue(st.sheet, i, 3)
             approval == getValue(st.sheet, i, APPROVAL_COLUMN)
             subject == SubjectFor(approval, st.subject)
             message == MessageFor(approval, st.message)
             entry == [row |-> i, status |-> notifiedStatus, approval |-> approval,
                       mailed |-> FALSE, marked |-> FALSE]
         IN IF notifiedStatus = Str("NOTIFIED")
            THEN SendLoop(i + 1, lastCol, [st EXCEPT !.log = Append(@, entry)])
            ELSE IF approval = Str("IN PROGRESS")
            THEN SendLoop(i + 1, lastCol, [st EXCEPT !.log = Append(@, entry)])
            ELSE IF subject = Undefined
            THEN [st EXCEPT !.log = Append(@, entry), !.thrown = TRUE]
            ELSE SendLoop(i + 1, lastCol,
                     [sheet |-> setValue(st.sheet, i, lastCol, Str("NOTIFIED")),
                      mail |-> [st.mail EXCEPT ![i] =
                                   Append(@, [to |-> email, subject |-> subject,
                                              message |-> message])],
                      subject |-> subject,
                      message |-> message,
                      log |-> Append(st.log, [entry EXCEPT !.mailed = TRUE,
                                                           !.marked = TRUE]),
                      thrown |-> FALSE])

sendEmails ==
    LET lastCol == getLastColumn(sheet)
        st == SendLoop(2, lastCol,
                  [sheet |-> sheet, mail |-> mail, subject |-> Undefined,
                   message |-> Undefined, log |-> <<>>, thrown |-> FALSE])
    IN /\ \A i \in 2..LastRow : Len(mail[i]) < MaxMails
       /\ sheet' = st.sheet
       /\ mail' = st.mail
       /\ sendLog' = st.log
       /\ UNCHANGED <<syncVars, runs>>

(***************************************************************************)
(* addApprovalColumn                                                       *)
(***************************************************************************)
addApprovalColumn ==
    LET lastCol == getLastColumn(sheet)
        s1 == insertColumnAfter(sheet, lastCol)
        s2 == setValue(s1, 1, lastCol + 1, Str("APPROVAL"))
        s3 == FillColumn(s2, 2, lastCol + 1, Str("IN PROGRESS"))
        s4 == insertColumnAfter(s3, APPROVAL_COLUMN)
        s5 == setValue(s4, 1, APPROVAL_COLUMN + 1, Str("NOTIFIED STATUS"))
        s6 == FillColumn(s5, 2, APPROVAL_COLUMN + 1, Str("NOT NOTIFIED"))
    IN /\ Len(s6) <= MaxCols
       /\ sheet' = s6
       /\ sendLog' = <<>>
       /\ UNCHANGED <<syncVars, runs, mail>>

(***************************************************************************)
(* calculatePay                                                            *)
(***************************************************************************)
RECURSIVE SumHours(_, _, _)
SumHours(sh, i, j) ==
    IF j > HRS_END THEN 0 ELSE getValue(sh, i, j).n + SumHours(sh, i, j + 1)

\* numHrs * hrlyRate: a number when the rate cell holds one, NaN when it holds text.
WeeklyPay(numHrs, hrlyRate) ==
    IF hrlyRate.k = "num" THEN Num(numHrs * hrlyRate.n)
    ELSE IF hrlyRate.k = "blank" THEN Num(0)
    ELSE NaN

RECURSIVE PayLoop(_, _, _)
PayLoop(sh, i, col) ==
    IF i > LastRow THEN sh
    ELSE PayLoop(setValue(sh, i, col,
                     WeeklyPay(SumHours(sh, i, HRS_START),
                               getValue(sh, i, HRLY_PAY_COLUMN))),
                 i + 1, col)

calculatePay ==
    LET lastCol == getLastColumn(sheet)
        s1 == insertColumnAfter(sheet, lastCol)
        s2 == setValue(s1, 1, lastCol + 1, Str("WEEKLY PAY"))
    IN /\ lastCol + 1 <= MaxCols
       /\ sheet' = PayLoop(s2, 2, lastCol + 1)
       /\ sendLog' = <<>>
       /\ UNCHANGED <<syncVars, runs, mail>>

(***************************************************************************)
(* The approver picks a value in a cell of a column headed APPROVAL, or    *)
(* clears the cell.                                                        *)
(***************************************************************************)
ApprovalValues == {Str("APPROVED"), Str("NOT APPROVED"), Str("IN PROGRESS")}

EditApproval(i, c, v) ==
    /\ i \in 2..LastRow
    /\ c \in 1..Len(sheet)
    /\ sheet[c][1] = Str("APPROVAL")
    /\ v \in ApprovalValues \cup {Blank}
    /\ sheet[c][i] # v
    /\ sheet' = [sheet EXCEPT ![c][i] = v]
    /\ sendLog' = <<>>
    /\ UNCHANGED <<syncVars, runs, mail>>

\* C6: no timesheet row is ever sent more than one e-mail.
C6_AtMostOnce == \A i \in 2..LastRow : Len(mail[i]) <= 1

\* C7: in a sendEmails run, a row not yet notified whose approval cell holds none of
\* the three values gets no e-mail and keeps its notified cell.
C7_UnrecognizedSkipped ==
    \A k \in 1..Len(sendLog) :
        (sendLog[k].status # Str("NOTIFIED") /\ sendLog[k].approval \notin ApprovalValues)
            => (~sendLog[k].mailed /\ ~sendLog[k].marked)

(***************************************************************************)
(* Vocabulary of the claims about a setUpCalendar_ pass.                   *)
(***************************************************************************)
DataRows(values) == FirstDataRow..Len(values)

\* The payload a row asks for, read off its cells.
RowPayload(row) ==
    [title |-> row.title,
     start |-> [day |-> row.date.day, hm |-> row.start.hm],
     end |-> [day |-> row.date.day, hm |-> row.end.hm],
     location |-> row.location]

EventPayload(event) ==
    [title |-> event.title, start |-> event.start, end |-> event.end,
     location |-> event.location]

\* The rows the last pass got through before it ended.
Processed ==
    IF pass.failedAt = 0 THEN DataRows(pass.before)
    ELSE FirstDataRow..(pass.failedAt - 1)

\* The identifiers that named an event of the pass's calendar when it began.
ResolvableBefore ==
    {getId(n) : n \in {m \in pass.liveBefore : events[m].cal = pass.cal}}

Completed == pass.ran /\ pass.failedAt = 0
SecondOfTwo == Completed /\ pass.resumed /\ pass.prevFailedAt = 0

\* C1: a completed pass that follows a completed pass over the same unchanged rows,
\* with nothing deleted in between, creates no calendar and no event, updates every
\* row's event with the row's own payload, and leaves every stored identifier as it was.
C1_Idempotent ==
    SecondOfTwo =>
        /\ ~pass.calCreated
        /\ Len(pass.calls) = Len(pass.before) - 1
        /\ \A k \in 1..Len(pass.calls) :
              /\ pass.calls[k].op = "update"
              /\ pass.calls[k].payload = RowPayload(pass.before[pass.calls[k].row])
              /\ EventPayload(events[pass.calls[k].id])
                     = RowPayload(pass.before[pass.calls[k].row])
        /\ Len(events) = pass.nEventsBefore
        /\ table = pass.before

C1_Witness == SecondOfTwo /\ Len(pass.before) = MaxRows + 1

\* C2: when a pass aborts at row k, the identifiers of the events it made for the
\* rows before k are in the table, and the pass that resumes it creates nothing for
\* those rows.
C2_Resumable ==
    /\ (pass.ran /\ pass.failedAt # 0) =>
          \A k \in 1..Len(pass.calls) :
              table[pass.calls[k].row].id = getId(pass.calls[k].id)
    /\ (pass.ran /\ pass.resumed /\ pass.prevFailedAt # 0) =>
          \A k \in 1..Len(pass.calls) :
              pass.calls[k].row < pass.prevFailedAt => pass.calls[k].op # "create"

\* C3: every calendar and every event the script ever created still exists, unless
\* its owner deleted it by hand; the script itself deletes none, whatever happens to
\* the rows.
C3_NeverDeletes ==
    /\ 1..nCalendars = calendars \cup trashedCalendars
    /\ 1..Len(events) = liveEvents \cup trashedEvents
    /\ \A n \in liveEvents : events[n].cal \in 1..nCalendars /\ events[n] # Gone

\* All rows were removed and the table synchronised again: the events made for the
\* removed rows are still in the registered calendar.
C3_Witness ==
    /\ Completed
    /\ Len(table) = 1
    /\ \E n \in liveEvents : events[n].cal = props.calendarId
    /\ trashedEvents = {}

\* C4: a pass makes exactly one call per data row it gets through, in row order: a
\* create when the stored identifier is empty or names no event of the current
\* calendar (the fresh identifier differs from the stored one), an update that keeps
\* the identifier otherwise; the event then carries the row's payload, and after a
\* completed pass every row holds its event's identifier, in place.
C4_CreateOrUpdate ==
    pass.ran =>
        /\ Len(pass.calls) = Cardinality(Processed)
        /\ \A k \in 1..Len(pass.calls) :
              LET c == pass.calls[k]
                  row == pass.before[c.row]
              IN /\ c.row = FirstDataRow + k - 1
                 /\ c.stored = row.id
                 /\ (c.op = "create") <=> (row.id \notin ResolvableBefore)
                 /\ (c.op = "update") <=> (row.id \in ResolvableBefore)
                 /\ c.op = "create" =>
                       /\ c.id \in (pass.nEventsBefore + 1)..Len(events)
                       /\ getId(c.id) # row.id
                       /\ \A j \in 1..Len(pass.calls) : j # k => pass.calls[j].id # c.id
                 /\ c.op = "update" => getId(c.id) = row.id
                 /\ c.id \in liveEvents
                 /\ events[c.id].cal = pass.cal
                 /\ EventPayload(events[c.id]) = RowPayload(row)
        /\ Len(events) - pass.nEventsBefore
              = Cardinality({k \in 1..Len(pass.calls) : pass.calls[k].op = "create"})
        /\ pass.failedAt = 0 =>
              /\ Len(table) = Len(pass.before)
              /\ table[1] = pass.before[1]
              /\ \A i \in DataRows(table) :
                    /\ table[i].id # NoId
                    /\ table[i].id = getId(pass.calls[i - 1].id)
                    /\ [table[i] EXCEPT !.id = NoId] = [pass.before[i] EXCEPT !.id = NoId]

\* One pass that recreates the event of a stale identifier and updates another row's.
C4_Witness ==
    /\ Completed
    /\ \E k \in 1..Len(pass.calls) :
          pass.calls[k].op = "create" /\ pass.calls[k].stored # NoId
    /\ \E k \in 1..Len(pass.calls) : pass.calls[k].op = "update"

\* C9: at most one onFormSubmit trigger is installed, and one is installed exactly
\* when a form is registered.
C9_SingleTrigger ==
    /\ triggers <= 1
    /\ (triggers = 1) <=> (props.formId # 0)

(***************************************************************************)
(* Vocabulary of the claims about the questions setUpForm_ builds.         *)
(***************************************************************************)
IsQuestion(item) == item.type = "MULTIPLE_CHOICE"
Questions == SelectSeq(forms[props.formId], IsQuestion)

\* A row's timeslot, as the form titles it: time + ' ' + day.
SlotKey(row) == <<row.start.hm, row.date.day>>
DayOf(key) == key[2]

FirstRowOfSlot(values, key) ==
    CHOOSE i \in DataRows(values) :
        /\ SlotKey(values[i]) = key
        /\ \A j \in DataRows(values) : SlotKey(values[j]) = key => i <= j

FirstRowOfDay(values, day) ==
    CHOOSE i \in DataRows(values) :
        /\ values[i].date.day = day
        /\ \A j \in DataRows(values) : values[j].date.day = day => i <= j

RECURSIVE TitlesOfSlot(_, _, _)
TitlesOfSlot(values, i, key) ==
    IF i > Len(values) THEN <<>>
    ELSE (IF SlotKey(values[i]) = key THEN <<values[i].title>> ELSE <<>>)
         \o TitlesOfSlot(values, i + 1, key)

\* One question per timeslot of the table, its choices the titles of the slot's rows
\* in row order.
OneQuestionPerSlot ==
    /\ \A i \in DataRows(table) :
          \E q \in 1..Len(Questions) : Questions[q].title = SlotKey(table[i])
    /\ \A q \in 1..Len(Questions) :
          /\ \E i \in DataRows(table) : Questions[q].title = SlotKey(table[i])
          /\ Questions[q].choices = TitlesOfSlot(table, FirstDataRow, Questions[q].title)
          /\ \A r \in 1..Len(Questions) :
                r # q => Questions[r].title # Questions[q].title

\* C5 as stated: the questions come in the order in which their (date, time) keys
\* first occur in the table.
C5_FirstSeenOrder ==
    Completed =>
        /\ OneQuestionPerSlot
        /\ \A a, b \in 1..Len(Questions) :
              a < b => FirstRowOfSlot(table, Questions[a].title)
                           < FirstRowOfSlot(table, Questions[b].title)

\* C5 as the code has it: the questions come day by day, the days in the order of
\* their first row, and within a day in the order of each time's first row.
C5_DayThenTimeOrder ==
    Completed =>
        /\ OneQuestionPerSlot
        /\ \A a, b \in 1..Len(Questions) :
              a < b =>
                  LET da == FirstRowOfDay(table, DayOf(Questions[a].title))
                      db == FirstRowOfDay(table, DayOf(Questions[b].title))
                  IN \/ da < db
                     \/ /\ da = db
                        /\ FirstRowOfSlot(table, Questions[a].title)
                               < FirstRowOfSlot(table, Questions[b].title)

\* Rows of two days interleaved: a later question's slot occurs first in the table.
C5_Witness ==
    /\ Completed
    /\ \E a, b \in 1..Len(Questions) :
          /\ a < b
          /\ FirstRowOfSlot(table, Questions[a].title)
                 > FirstRowOfSlot(table, Questions[b].title)

(***************************************************************************)
(* onFormSubmit, sendInvites_ and addGuestAndSendEmail_.  Every installed  *)
(* trigger starts a run of onFormSubmit for a submission, and runs of      *)
(* different submissions may overlap: a run is a sequence of steps, one    *)
(* per call of the Calendar service.                                       *)
(***************************************************************************)
Range(f) == {f[x] : x \in DOMAIN f}

IsMultipleChoice(item) == item.type = "MULTIPLE_CHOICE"

\* e.namedValues of a submission of form f: every question's title, with the one
\* choice picked for it, or '' when it was left unanswered.
NamedValues(f, pick) ==
    LET questions == SelectSeq(forms[f], IsMultipleChoice)
    IN [key \in {questions[q].title : q \in 1..Len(questions)} |->
           LET q == CHOOSE q \in 1..Len(questions) : questions[q].title = key
           IN IF pick[q] = 0 THEN <<"">> ELSE <<questions[q].choices[pick[q]]>>]

Selected(namedValues, session) ==
    LET title == session.title
        day == toLocaleDateString(session.date)
        time == toLocaleTimeString(session.start)
        timeslot == <<time, day>>
    IN /\ timeslot \in DOMAIN namedValues
       /\ title \in Range(namedValues[timeslot])

RECURSIVE ResponseLoop(_, _, _)
ResponseLoop(i, values, namedValues) ==
    IF i > Len(values) THEN <<>>
    ELSE (IF Selected(namedValues, values[i]) THEN <<values[i]>> ELSE <<>>)
         \o ResponseLoop(i + 1, values, namedValues)

onFormSubmit(f, pick) ==
    LET questions == SelectSeq(forms[f], IsMultipleChoice)
        namedValues == NamedValues(f, pick)
        response == ResponseLoop(FirstDataRow, table, namedValues)
        run == [pc |-> IF response = <<>> THEN "done" ELSE "get",
                email |-> Len(runs) + 1,
                namedValues |-> namedValues,
                values |-> table,
                calId |-> props.calendarId,
                response |-> [k \in 1..Len(response) |-> response[k].id],
                attendees |-> <<>>,
                patches |-> <<>>]
    IN /\ f \in liveForms
       /\ triggers >= 1
       /\ Len(runs) + triggers <= MaxRuns
       /\ pick \in [1..Len(questions) -> 0..MaxRows]
       /\ \A q \in 1..Len(questions) : pick[q] <= Len(questions[q].choices)
       /\ runs' = runs \o [k \in 1..triggers |-> run]
       /\ UNCHANGED <<syncVars, timesheetVars>>

\* The event Calendar.Events.get and patch address: the id with "@google.com" cut
\* out; 0 when there is none in that calendar.
AddressedEvent(calendarId, eventId) ==
    LET calEventId == StripSuffix(eventId)
        n == IF calEventId = <<>> THEN 0 ELSE Head(calEventId)
    IN IF calendarId \in calendars /\ n \in liveEvents /\ events[n].cal = calendarId
       THEN n ELSE 0

EventsGet(p) ==
    /\ p \in 1..Len(runs)
    /\ runs[p].pc = "get"
    /\ LET n == AddressedEvent(runs[p].calId, Head(runs[p].response))
       IN runs' = IF n = 0
                  THEN [runs EXCEPT ![p].pc = "failed"]
                  ELSE [runs EXCEPT ![p].pc = "patch",
                                    ![p].attendees = events[n].attendees]
    /\ UNCHANGED <<syncVars, timesheetVars>>

PatchedAttendees(attendees, newGuest) == Append(attendees, newGuest)

EventsPatch(p) ==
    /\ p \in 1..Len(runs)
    /\ runs[p].pc = "patch"
    /\ LET n == AddressedEvent(runs[p].calId, Head(runs[p].response))
           resource == PatchedAttendees(runs[p].attendees, runs[p].email)
       IN IF n = 0
          THEN /\ runs' = [runs EXCEPT ![p].pc = "failed"]
               /\ UNCHANGED events
          ELSE /\ events' = [events EXCEPT ![n].attendees = resource]
               /\ runs' = [runs EXCEPT
                     ![p].pc = IF Len(runs[p].response) = 1 THEN "done" ELSE "get",
                     ![p].response = Tail(@),
                     ![p].patches = Append(@, [id |-> Head(runs[p].response),
                                               was |-> events[n].attendees,
                                               now |-> resource])]
    /\ UNCHANGED <<table, props, nCalendars, calendars, trashedCalendars, liveEvents,
                   trashedEvents, forms, liveForms, triggers, pass, timesheetVars>>

Finished(p) == runs[p].pc \in {"done", "failed"}

\* The rows of the table a run read whose timeslot the submission answered with the
\* row's title.
Matching(p) ==
    {i \in DataRows(runs[p].values) :
        /\ SlotKey(runs[p].values[i]) \in DOMAIN runs[p].namedValues
        /\ runs[p].values[i].title \in Range(runs[p].namedValues[SlotKey(runs[p].values[i])])}

\* C8: a finished run has added the submitting user to the event of every matching
\* row and to no other event, ended without error when no row matched, and no patch
\* of it took an attendee off the list it replaced.
C8_InvitesSelected ==
    \A p \in 1..Len(runs) :
        Finished(p) =>
            /\ \A i \in Matching(p) :
                  \E k \in 1..Len(runs[p].patches) :
                      /\ runs[p].patches[k].id = runs[p].values[i].id
                      /\ runs[p].email \in Range(runs[p].patches[k].now)
            /\ \A k \in 1..Len(runs[p].patches) :
                  \E i \in Matching(p) : runs[p].values[i].id = runs[p].patches[k].id
            /\ Matching(p) = {} => (runs[p].pc = "done" /\ runs[p].patches = <<>>)
            /\ \A k \in 1..Len(runs[p].patches) :
                  Range(runs[p].patches[k].was) \subseteq Range(runs[p].patches[k].now)

\* C10: when the runs of two users who picked the same session have both finished,
\* both users are on the attendee list of that session's event.
C10_NoLostGuest ==
    \A p, q \in 1..Len(runs) :
        (p # q /\ runs[p].pc = "done" /\ runs[q].pc = "done"
              /\ runs[p].email # runs[q].email) =>
            \A k \in 1..Len(runs[p].patches), j \in 1..Len(runs[q].patches) :
                (/\ runs[p].patches[k].id = runs[q].patches[j].id
                 /\ ApiId(runs[p].patches[k].id) \in liveEvents) =>
                    {runs[p].email, runs[q].email}
                        \subseteq Range(events[ApiId(runs[p].patches[k].id)].attendees)

(***************************************************************************)
(* Initial state: an empty 'Conference Setup' sheet with its header,       *)
(* nothing set up, no form submitted; the timesheet as handed out, nothing *)
(* mailed.                                                                 *)
(***************************************************************************)
InitRest ==
    /\ runs = <<>>
    /\ sheet = TemplateSheet
    /\ mail = [i \in 2..LastRow |-> <<>>]
    /\ sendLog = <<>>

Init ==
    /\ table = <<Header>>
    /\ props = [calendarId |-> 0, formId |-> 0]
    /\ nCalendars = 0
    /\ calendars = {}
    /\ trashedCalendars = {}
    /\ events = <<>>
    /\ liveEvents = {}
    /\ trashedEvents = {}
    /\ forms = <<>>
    /\ liveForms = {}
    /\ triggers = 0
    /\ pass = NoPass
    /\ InitRest

Next ==
    \/ \E failAt \in 0..(MaxRows + 1) : setUpConference(failAt)
    \/ \E response \in {"OK", "CANCEL"} : resetConference_(response)
    \/ \E title \in Titles : AddRow(title, "Mon", "10:00")
    \/ \E i \in 1..(MaxRows + 1) : RemoveRow(i)
    \/ \E i \in 1..(MaxRows + 1), title \in Titles : EditRow(i, title)
    \/ \E n \in 1..MaxEvents : DeleteEventByHand(n)
    \/ \E c \in 1..MaxCalendars : DeleteCalendarByHand(c)
    \/ \E f \in 1..MaxForms : DeleteFormByHand(f)

Spec == Init /\ [][Next]_vars

(***************************************************************************)
(* The timesheet menu, used in any order, with approvals edited in between.*)
(***************************************************************************)
NextTimesheet ==
    \/ calculatePay
    \/ addApprovalColumn
    \/ sendEmails
    \/ \E i \in 2..LastRow, c \in 1..MaxCols, v \in ApprovalValues \cup {Blank} :
          EditApproval(i, c, v)

SpecTimesheet == Init /\ [][NextTimesheet]_vars

(***************************************************************************)
(* The grouping of setUpForm_ over every table of up to GroupRows rows.    *)
(***************************************************************************)
RowValues == {NewRow(title, day, time) : title \in Titles, day \in Days, time \in Times}

InitGroup ==
    /\ \E n \in 0..GroupRows :
          \E rows \in [1..n -> RowValues] :
              table = <<Header>> \o [i \in 1..n |-> rows[i]]
    /\ props = [calendarId |-> 0, formId |-> 0]
    /\ nCalendars = 0
    /\ calendars = {}
    /\ trashedCalendars = {}
    /\ events = <<>>
    /\ liveEvents = {}
    /\ trashedEvents = {}
    /\ forms = <<>>
    /\ liveForms = {}
    /\ triggers = 0
    /\ pass = NoPass
    /\ InitRest

NextGroup == setUpConference(0)

(***************************************************************************)
(* Form submissions, overlapping, against a table that is being extended   *)
(* and synchronised.                                                       *)
(***************************************************************************)
NextSubmit ==
    \/ setUpConference(0)
    \/ \E title \in Titles : AddRow(title, "Mon", "10:00")
    \/ \E i \in 1..(MaxRows + 1), title \in Titles : EditRow(i, title)
    \/ \E f \in 1..Len(forms) :
          \E pick \in [1..Len(SelectSeq(forms[f], IsMultipleChoice)) -> 0..MaxRows] :
              onFormSubmit(f, pick)
    \/ \E p \in 1..MaxRuns : EventsGet(p)
    \/ \E p \in 1..MaxRuns : EventsPatch(p)

SpecSubmit == Init /\ [][NextSubmit]_vars

SpecGroup == InitGroup /\ [][NextGroup]_vars
====
